---- MODULE Spec2Model ----
(***************************************************************************)
(* PhysicalBatchCopyToFile: the batch copy sink of                         *)
(* src/src/execution/operator/persistent/physical_batch_copy_to_file.cpp.  *)
(* Producer threads append rows to a local collection (Sink), hand the     *)
(* collection off at every batch transition (NextBatch), add their row     *)
(* count to the global counter (Combine), and one thread runs Finalize.    *)
(* A row is <<producer, n>>: the n-th row that producer passed to Sink.    *)
(***************************************************************************)
EXTENDS Integers, Sequences, FiniteSets, TLC

VARIABLES
    scheduler,        \* "ordered": the pipeline executor's protocol; "free": any caller
    batch_size,       \* gstate.batch_size
    raw_batches,      \* gstate.raw_batches: batch index -> collection
    batch_data,       \* gstate.batch_data: batch index -> prepared batch
    rows_copied,      \* gstate.rows_copied
    active_flush,     \* gstate.active_flush
    lock,             \* holder of gstate.lock
    flush_lock,       \* holder of gstate.flush_lock
    collection,       \* state.collection of each producer: NullPtr or Ptr(rows)
    local_rows,       \* state.rows_copied of each producer
    batch_index,      \* state.batch_index of each producer
    part_batch,       \* lstate.partition_info.batch_index
    part_min,         \* lstate.partition_info.min_batch_index
    in_flight,        \* the executor's set of batch indexes being produced
    next_batch,       \* the next batch index the source gives out
    pc,               \* where each thread is
    min_index,        \* the min_index argument of the call a thread is in
    pending,          \* collections a thread holds between two steps
    sunk,             \* history: the number of rows passed to Sink
    submitted,        \* history: the batch indexes inserted into raw_batches or batch_data
    handed,           \* history: batch index -> rows handed off by NextBatch
    prepared,         \* history: the calls of function.prepare_batch, a bag
    output,           \* history: the calls of function.flush_batch
    last_pass,        \* history: the last RepartitionBatches call
    last_flush,       \* history: the last FlushBatchData call that ran on its own
    copy_to_finalize, \* whether function.copy_to_finalize is defined
    use_tmp_file,     \* use_tmp_file
    failed,           \* history: the collections whose flush_batch call raised an error
    finalize_log,     \* history: the steps Finalize has taken after its final flush
    candidates,       \* the keys the loop of lines 135-142 counted, for a thread inside
                      \* RepartitionBatches
    filled            \* history: state.batch_index when Sink last appended to the
                      \* producer's collection

vars == <<scheduler, batch_size, raw_batches, batch_data, rows_copied, active_flush,
          lock, flush_lock, collection, local_rows, batch_index, part_batch,
          part_min, in_flight, next_batch, pc, min_index, pending, sunk, submitted,
          handed, prepared, output, last_pass, last_flush, copy_to_finalize,
          use_tmp_file, failed, finalize_log, candidates, filled>>

----------------------------------------------------------------------------
(* Bounds of the model *)

\* batch indexes the source gives out: 0 .. MaxBatches - 1
MaxBatches == 3
\* rows one producer appends to one collection
MaxRows == 2
\* the rows of one chunk (STANDARD_VECTOR_SIZE is 2048 in the build)
STANDARD_VECTOR_SIZE == 1
\* what function.desired_batch_size returns when the hook is defined
DesiredBatchSize == 2

\* entries of raw_batches when RepartitionBatches runs on its own
MaxEntries == 4
\* hand-offs, and rows sunk, when the sink's caller is not the executor
MaxHandOffs == 2
MaxFreeRows == 2

Producers == {"p1", "p2"}
Fin == "fin"
Threads == Producers \cup {Fin}
NoThread == "none"

\* idx_t(NumericLimits<int64_t>::Maximum()): above every batch index
INT64_MAX == MaxBatches + MaxEntries
\* an optional_idx that is not set
NoBatch == -1

----------------------------------------------------------------------------
(* unique_ptr, std::map and ColumnDataCollection *)

NullPtr == <<>>
Ptr(c) == <<c>>
Deref(p) == p[1]

EmptyMap == [k \in {} |-> <<>>]
MapInsert(m, k, v) == [x \in DOMAIN m \cup {k} |-> IF x = k THEN v ELSE m[x]]
MapErase(m, ks) == [x \in DOMAIN m \ ks |-> m[x]]

\* one more occurrence of e in the bag b
BagAdd(b, e) == [x \in DOMAIN b \cup {e} |->
                    IF x = e THEN (IF e \in DOMAIN b THEN b[e] + 1 ELSE 1) ELSE b[x]]

SetMin(S) == CHOOSE x \in S : \A y \in S : x <= y
SetMax(S) == CHOOSE x \in S : \A y \in S : x >= y

RECURSIVE SortedKeys(_)
SortedKeys(S) == IF S = {} THEN <<>> ELSE <<SetMin(S)>> \o SortedKeys(S \ {SetMin(S)})

RECURSIVE Flatten(_)
Flatten(ss) == IF ss = <<>> THEN <<>> ELSE Head(ss) \o Flatten(Tail(ss))

RECURSIVE SumLen(_)
SumLen(ss) == IF ss = <<>> THEN 0 ELSE Len(Head(ss)) + SumLen(Tail(ss))

\* the values of map m at the keys ks (a sequence of keys), in that order
ValuesAt(m, ks) == [i \in 1..Len(ks) |-> m[ks[i]]]

\* ColumnDataCollection::Chunks: the rows in chunks of STANDARD_VECTOR_SIZE
RECURSIVE Chunks(_)
Chunks(c) ==
    IF c = <<>> THEN <<>>
    ELSE IF Len(c) <= STANDARD_VECTOR_SIZE THEN <<c>>
    ELSE <<SubSeq(c, 1, STANDARD_VECTOR_SIZE)>>
            \o Chunks(SubSeq(c, STANDARD_VECTOR_SIZE + 1, Len(c)))

AbsValue(x) == IF x < 0 THEN -x ELSE x

----------------------------------------------------------------------------
(* RepartitionBatches, lines 120-216 *)

\* line 121 with <= for <
CorrectSizeForBatch_Loose(collection_size, desired_size) ==
    AbsValue(collection_size - desired_size) <= STANDARD_VECTOR_SIZE

\* line 121
CorrectSizeForBatch(collection_size, desired_size) ==
    AbsValue(collection_size - desired_size) < STANDARD_VECTOR_SIZE

\* lines 136-142: the rows of the entries below min_index
CandidateRows(raw, min_idx) ==
    SumLen(ValuesAt(raw, SortedKeys({k \in DOMAIN raw : k < min_idx})))

\* lines 143-146 without the return
NotEnoughRows_Off(raw, min_idx, bsize) == FALSE

\* lines 143-146: not enough rows to fill one batch
NotEnoughRows(raw, min_idx, bsize) == CandidateRows(raw, min_idx) < bsize

\* a gather loop that stops after its first entry
GatherKeys_First(raw, min_idx) == <<SetMin({k \in DOMAIN raw : k < min_idx})>>

\* lines 151-152 without the test against min_index
GatherKeys_Unbounded(raw, min_idx) == SortedKeys(DOMAIN raw)

\* lines 151-158: the keys removed from raw_batches, in increasing order
GatherKeys(raw, min_idx) == SortedKeys({k \in DOMAIN raw : k < min_idx})

\* lines 188-199: append the chunks to current_collection, moving it to the
\* result whenever it reaches the batch size
RECURSIVE AppendChunks(_, _, _, _)
AppendChunks(chunks, cur, result, bsize) ==
    IF chunks = <<>> THEN [cur |-> cur, result |-> result]
    ELSE LET grown == cur \o Head(chunks) IN
         IF Len(grown) < bsize
         THEN AppendChunks(Tail(chunks), grown, result, bsize)
         ELSE AppendChunks(Tail(chunks), <<>>, Append(result, grown), bsize)

\* lines 163-200: cur is current_collection (NullPtr until the first collection
\* that is not used directly)
RECURSIVE MergeCollections(_, _, _, _)
MergeCollections(colls, cur, result, bsize) ==
    IF colls = <<>> THEN [cur |-> cur, result |-> result]
    ELSE LET c == Head(colls) IN
         IF cur = NullPtr /\ CorrectSizeForBatch(Len(c), bsize)
         THEN MergeCollections(Tail(colls), NullPtr, Append(result, c), bsize)
         ELSE IF cur = NullPtr /\ Len(c) < bsize
         THEN MergeCollections(Tail(colls), Ptr(c), result, bsize)
         ELSE LET start == IF cur = NullPtr THEN <<>> ELSE Deref(cur)
                  r == AppendChunks(Chunks(c), start, result, bsize)
              IN MergeCollections(Tail(colls), Ptr(r.cur), r.result, bsize)

\* line 205 never true: every leftover goes back into raw_batches
LeftoverEmitted_Never(leftover, final, bsize) == FALSE

\* lines 201-210: the leftover is emitted or goes back into raw_batches
LeftoverEmitted(leftover, final, bsize) ==
    final \/ CorrectSizeForBatch(Len(leftover), bsize)

\* lines 130-147: the call returns before it gathers anything
RepartitionReturns(raw, min_idx, final, bsize) ==
    DOMAIN raw = {} \/ (~final /\ NotEnoughRows(raw, min_idx, bsize))

\* lines 148-210 on the map raw: the gather loop, the merge loop and the
\* leftover
GatherPass(raw, min_idx, final, bsize) ==
    LET keys == GatherKeys(raw, min_idx)
        drained == ValuesAt(raw, keys)
        rest == MapErase(raw, {keys[i] : i \in 1..Len(keys)})
        m == MergeCollections(drained, NullPtr, <<>>, bsize)
    IN IF m.cur = NullPtr
       THEN [status |-> "null", raw |-> rest, result |-> <<>>,
             drained |-> drained, leftover |-> <<>>]
       ELSE IF Len(Deref(m.cur)) = 0
       THEN [status |-> "ok", raw |-> rest, result |-> m.result,
             drained |-> drained, leftover |-> <<>>]
       ELSE IF LeftoverEmitted(Deref(m.cur), final, bsize)
       THEN [status |-> "ok", raw |-> rest,
             result |-> Append(m.result, Deref(m.cur)),
             drained |-> drained, leftover |-> <<>>]
       ELSE [status |-> "ok",
             raw |-> MapInsert(rest, keys[Len(keys)], Deref(m.cur)),
             result |-> m.result, drained |-> drained,
             leftover |-> Deref(m.cur)]

\* One call of RepartitionBatches up to line 210, on the map raw.
\*   status "return": lines 130-132 or 143-146, nothing is consumed
\*   status "null":   line 201 dereferences a current_collection that is NULL
\*   status "ok":     raw is the map after the call, result the collections
\*                    that lines 212-215 prepare and flush
RepartitionPass(raw, min_idx, final, bsize) ==
    IF RepartitionReturns(raw, min_idx, final, bsize)
    THEN [status |-> "return", raw |-> raw, result |-> <<>>, drained |-> <<>>,
          leftover |-> <<>>]
    ELSE GatherPass(raw, min_idx, final, bsize)

----------------------------------------------------------------------------
(* The state after construction *)

\* BatchCopyToGlobalState and BatchCopyToLocalState constructors, lines 27-52;
\* GetGlobalSinkState, lines 293-301, sets batch_size
InitState(sched) ==
    /\ scheduler = sched
    /\ batch_size \in {0, DesiredBatchSize}
    /\ raw_batches = EmptyMap
    /\ batch_data = EmptyMap
    /\ rows_copied = 0
    /\ active_flush = FALSE
    /\ lock = NoThread
    /\ flush_lock = NoThread
    /\ collection = [p \in Producers |-> NullPtr]
    /\ local_rows = [p \in Producers |-> 0]
    /\ batch_index = [p \in Producers |-> 0]
    /\ part_batch = [p \in Producers |-> NoBatch]
    /\ part_min = [p \in Producers |-> NoBatch]
    /\ in_flight = [p \in Producers |-> NoBatch]
    /\ next_batch = 0
    /\ pc = [t \in Threads |-> "start"]
    /\ min_index = [t \in Threads |-> 0]
    /\ pending = [t \in Threads |-> <<>>]
    /\ sunk = 0
    /\ submitted = {}
    /\ handed = EmptyMap
    /\ prepared = EmptyMap
    /\ output = <<>>
    /\ last_pass = [status |-> "none"]
    /\ last_flush = [status |-> "none"]
    /\ copy_to_finalize \in BOOLEAN
    /\ use_tmp_file \in BOOLEAN
    /\ failed = {}
    /\ finalize_log = <<>>
    /\ candidates = [t \in Threads |-> {}]
    /\ filled = [p \in Producers |-> NoBatch]

\* a copy function with a copy_to_finalize callback, writing to a temporary file
Init == InitState("ordered") /\ copy_to_finalize /\ use_tmp_file

InitFree == InitState("free") /\ copy_to_finalize /\ use_tmp_file

\* any copy function, with or without a temporary file
InitConfig == InitState("ordered")

----------------------------------------------------------------------------
(* The pipeline executor: which calls the sink receives *)

\* what a caller other than the executor may pass; its first call on a
\* producer only creates the collection, its later calls are hand-offs
FreeIndexes == 0 .. MaxHandOffs - 1

FreeWatermarks == {0, INT64_MAX}

\* the batch index of the next batch transition: the source's next index, or
\* INT64_MAX when the source is exhausted
NewBatchIndexes(p) ==
    IF scheduler = "ordered"
    THEN (IF next_batch < MaxBatches THEN {next_batch} ELSE {})
            \cup (IF pc[p] = "idle" THEN {INT64_MAX} ELSE {})
    ELSE (IF next_batch < MaxHandOffs THEN FreeIndexes ELSE {})

\* the min_batch_index a NextBatch call reads: the executor updates
\* partition_info.min_batch_index after the call returns, so the call sees the
\* minimum of the batches in flight at the previous transition
Watermarks(p) ==
    IF scheduler = "ordered" THEN {part_min[p]} ELSE FreeWatermarks

\* Pipeline::UpdateBatchIndex: the smallest batch index in flight
MinInFlight(inf) == SetMin({inf[q] : q \in {r \in Producers : inf[r] # NoBatch}})

----------------------------------------------------------------------------
(* Sink and Combine, lines 71-87 *)

NewRows(p, n) == [i \in 1..n |-> <<p, local_rows[p] + i>>]

Sink(p) ==
    /\ pc[p] = "idle"
    /\ batch_index[p] # INT64_MAX
    /\ \E n \in 1..STANDARD_VECTOR_SIZE :
        LET old == IF collection[p] = NullPtr THEN <<>> ELSE Deref(collection[p]) IN
        /\ Len(old) + n <= MaxRows
        /\ scheduler = "free" => sunk + n <= MaxFreeRows
        /\ local_rows' = [local_rows EXCEPT ![p] = @ + n]
        /\ sunk' = sunk + n
        /\ collection' = [collection EXCEPT ![p] = Ptr(old \o NewRows(p, n))]
    /\ filled' = [filled EXCEPT ![p] = batch_index[p]]
    /\ pc' = [pc EXCEPT ![p] = "idle"]
    /\ UNCHANGED <<scheduler, batch_size, raw_batches, batch_data, rows_copied,
                   active_flush, lock, flush_lock, batch_index, part_batch, part_min,
                   in_flight, next_batch, min_index, pending, handed, prepared,
                   output, last_pass,
                   submitted,
                   copy_to_finalize, use_tmp_file, failed, finalize_log, last_flush, candidates>>

\* line 86 left out
CombineRows_Unchanged(global, local) == global

\* line 86 with = for +=
CombineRows_Overwrite(global, local) == local

\* line 86
CombineRows(global, local) == global + local

Combine(p) ==
    /\ pc[p] \in {"start", "idle"}
    /\ rows_copied' = CombineRows(rows_copied, local_rows[p])
    /\ pc' = [pc EXCEPT ![p] = "done"]
    /\ UNCHANGED <<scheduler, batch_size, raw_batches, batch_data, active_flush, lock,
                   flush_lock, collection, local_rows, batch_index, part_batch,
                   part_min, in_flight, next_batch, min_index, pending, handed,
                   prepared, output, last_pass, sunk,
                   submitted,
                   copy_to_finalize, use_tmp_file, failed, finalize_log, last_flush, candidates, filled>>

----------------------------------------------------------------------------
(* NextBatch, lines 266-287 *)

\* lines 284-286, and the executor's update of the batches in flight once the
\* call has returned; new is partition_info.batch_index (min_index is the
\* call's argument, dead after it)
NextBatchReturns(p, new) ==
    /\ batch_index' = [batch_index EXCEPT ![p] = new]
    /\ collection' = [collection EXCEPT ![p] = Ptr(<<>>)]
    /\ in_flight' = IF scheduler = "ordered"
                    THEN [in_flight EXCEPT ![p] = new] ELSE in_flight
    /\ part_min' = IF scheduler = "ordered"
                   THEN [part_min EXCEPT ![p] = MinInFlight(in_flight')] ELSE part_min
    /\ min_index' = [min_index EXCEPT ![p] = 0]
    /\ pc' = [pc EXCEPT ![p] = "idle"]

\* the hand-off always made through PrepareBatchData
HandOffPath_Direct(bsize) == "prepare"

\* lines 275-282: with a batch size the collection goes to AddBatchData and
\* RepartitionBatches, without one to PrepareBatchData
HandOffPath(bsize) == IF bsize # 0 THEN "add" ELSE "prepare"

\* lines 270-283: the executor has set partition_info.batch_index; a producer
\* that holds a collection hands it off under state.batch_index
NextBatch(p) ==
    /\ pc[p] \in {"start", "idle"}
    /\ batch_index[p] # INT64_MAX
    /\ \E new \in NewBatchIndexes(p), w \in Watermarks(p) :
        /\ part_batch' = [part_batch EXCEPT ![p] = new]
        /\ next_batch' = IF new = INT64_MAX \/ (scheduler = "free" /\ collection[p] = NullPtr)
                          THEN next_batch ELSE next_batch + 1
        /\ IF collection[p] = NullPtr
           THEN /\ NextBatchReturns(p, new)
                /\ handed' = handed
           ELSE /\ min_index' = [min_index EXCEPT ![p] = w]
                /\ pc' = [pc EXCEPT ![p] = HandOffPath(batch_size)]
                /\ handed' = MapInsert(handed, batch_index[p], Deref(collection[p]))
                /\ UNCHANGED <<collection, batch_index, part_min, in_flight>>
    /\ UNCHANGED <<scheduler, batch_size, raw_batches, batch_data, rows_copied,
                   active_flush, lock, flush_lock, local_rows, pending, prepared,
                   output, last_pass, sunk,
                   submitted,
                   copy_to_finalize, use_tmp_file, failed, finalize_log, last_flush, candidates, filled>>

----------------------------------------------------------------------------
(* AddBatchData, lines 108-118 *)

\* the hand-off made under partition_info.batch_index, the new index
HandOffIndex_New(p) == part_batch[p]

\* lines 278 and 281: the index NextBatch passes to AddBatchData and to
\* PrepareBatchData is state.batch_index, which line 284 has not yet updated
HandOffIndex(p) == batch_index[p]

\* lines 115 and 227: map::insert found the key
DuplicateIndex(m, k) == k \in DOMAIN m

\* gstate.lock taken without waiting for its holder
RegistryLockFree_Ignored == TRUE

\* lock_guard<mutex> l(gstate.lock) can be taken
RegistryLockFree == lock = NoThread

AddBatchData(p) ==
    /\ pc[p] = "add"
    /\ RegistryLockFree
    /\ IF DuplicateIndex(raw_batches, HandOffIndex(p))
       THEN /\ pc' = [pc EXCEPT ![p] = "dup_error"]
            /\ raw_batches' = raw_batches
            /\ submitted' = submitted
       ELSE /\ pc' = [pc EXCEPT ![p] = "repartition"]
            /\ raw_batches' = MapInsert(raw_batches, HandOffIndex(p), Deref(collection[p]))
            /\ submitted' = submitted \cup {HandOffIndex(p)}
    /\ collection' = [collection EXCEPT ![p] = NullPtr]
    /\ UNCHANGED <<scheduler, batch_size, batch_data, rows_copied, active_flush, lock,
                   flush_lock, local_rows, batch_index, part_batch, part_min, in_flight,
                   next_batch, min_index, pending, handed, prepared, output, last_pass, sunk,
                   copy_to_finalize, use_tmp_file, failed, finalize_log, last_flush, candidates, filled>>

----------------------------------------------------------------------------
(* RepartitionBatches, lines 124-216 *)

\* lines 129-147: gstate.lock is taken; the call returns at line 131 or 145,
\* or goes on to the gather loop with the lock held. candidates are the keys
\* the loop of lines 135-142 counted (in a final call, which skips the loop,
\* the keys the test of line 130 saw).
RepartitionBatches(t) ==
    /\ pc[t] = "repartition"
    /\ RegistryLockFree
    /\ IF RepartitionReturns(raw_batches, min_index[t], t = Fin, batch_size)
       THEN /\ last_pass' = [status |-> "return", thread |-> t, final |-> (t = Fin),
                             min_index |-> min_index[t], before |-> raw_batches,
                             after |-> raw_batches, result |-> <<>>]
            /\ pc' = [pc EXCEPT ![t] = "fbd_check"]
            /\ UNCHANGED <<lock, candidates>>
       ELSE /\ lock' = t
            /\ candidates' = [candidates EXCEPT ![t] =
                                {k \in DOMAIN raw_batches : k < min_index[t]}]
            /\ pc' = [pc EXCEPT ![t] = "rp_gather"]
            /\ UNCHANGED last_pass
    /\ UNCHANGED <<scheduler, batch_size, raw_batches, batch_data, rows_copied,
                   active_flush, flush_lock, collection, local_rows, batch_index,
                   part_batch, part_min, in_flight, next_batch, min_index, pending,
                   handed, prepared, output, sunk, submitted, copy_to_finalize,
                   use_tmp_file, failed, finalize_log, last_flush, filled>>

\* lines 148-210, still under the lock_guard of line 129: the call fails at
\* line 201, or keeps the lock for the loop of lines 212-215, or ends
RepartitionGather(t) ==
    /\ pc[t] = "rp_gather"
    /\ LET r == GatherPass(raw_batches, min_index[t], t = Fin, batch_size) IN
        /\ raw_batches' = r.raw
        /\ pending' = [pending EXCEPT ![t] = r.result]
        /\ last_pass' = [status |-> r.status, thread |-> t, final |-> (t = Fin),
                         min_index |-> min_index[t], before |-> raw_batches,
                         after |-> r.raw, result |-> r.result]
        /\ pc' = [pc EXCEPT ![t] =
                    IF r.status = "null" THEN "null_error"
                    ELSE IF r.result # <<>> THEN "rp_prepare" ELSE "fbd_check"]
        /\ lock' = IF r.status = "ok" /\ r.result # <<>> THEN t ELSE NoThread
    /\ candidates' = [candidates EXCEPT ![t] = {}]
    /\ UNCHANGED <<scheduler, batch_size, batch_data, rows_copied, active_flush,
                   flush_lock, collection, local_rows, batch_index, part_batch,
                   part_min, in_flight, next_batch, min_index, handed, prepared,
                   output, sunk, submitted, copy_to_finalize, use_tmp_file, failed,
                   finalize_log, last_flush, filled>>

\* lines 213-214: prepare_batch returns and flush_batch is called
RepartitionPrepare(t) ==
    /\ pc[t] = "rp_prepare"
    /\ prepared' = BagAdd(prepared, [idx |-> NoBatch, rows |-> Head(pending[t]),
                                     final |-> (t = Fin)])
    /\ output' = Append(output, Head(pending[t]))
    /\ pc' = [pc EXCEPT ![t] = "rp_flush"]
    /\ UNCHANGED <<scheduler, batch_size, raw_batches, batch_data, rows_copied,
                   active_flush, lock, flush_lock, collection, local_rows, batch_index,
                   part_batch, part_min, in_flight, next_batch, min_index, pending,
                   handed, last_pass, sunk,
                   submitted,
                   copy_to_finalize, use_tmp_file, failed, finalize_log, last_flush, candidates, filled>>

----------------------------------------------------------------------------
(* PrepareBatchData, lines 218-230 *)

\* line 223: prepare_batch, outside the locks
PrepareBatch(p) ==
    /\ pc[p] = "prepare"
    /\ prepared' = BagAdd(prepared, [idx |-> HandOffIndex(p),
                                     rows |-> Deref(collection[p]), final |-> FALSE])
    /\ pending' = [pending EXCEPT ![p] = <<Deref(collection[p])>>]
    /\ collection' = [collection EXCEPT ![p] = NullPtr]
    /\ pc' = [pc EXCEPT ![p] = "insert"]
    /\ UNCHANGED <<scheduler, batch_size, raw_batches, batch_data, rows_copied,
                   active_flush, lock, flush_lock, local_rows, batch_index, part_batch,
                   part_min, in_flight, next_batch, min_index, handed, output, last_pass, sunk,
                   submitted,
                   copy_to_finalize, use_tmp_file, failed, finalize_log, last_flush, candidates, filled>>

\* lines 225-229
InsertPrepared(p) ==
    /\ pc[p] = "insert"
    /\ RegistryLockFree
    /\ IF DuplicateIndex(batch_data, HandOffIndex(p))
       THEN /\ pc' = [pc EXCEPT ![p] = "dup_error"]
            /\ batch_data' = batch_data
            /\ submitted' = submitted
       ELSE /\ pc' = [pc EXCEPT ![p] = "fbd_check"]
            /\ batch_data' = MapInsert(batch_data, HandOffIndex(p), Ptr(Head(pending[p])))
            /\ submitted' = submitted \cup {HandOffIndex(p)}
    /\ pending' = [pending EXCEPT ![p] = <<>>]
    /\ UNCHANGED <<scheduler, batch_size, raw_batches, rows_copied, active_flush, lock,
                   flush_lock, collection, local_rows, batch_index, part_batch, part_min,
                   in_flight, next_batch, min_index, handed, prepared, output, last_pass, sunk,
                   copy_to_finalize, use_tmp_file, failed, finalize_log, last_flush, candidates, filled>>

----------------------------------------------------------------------------
(* FlushBatchData, lines 232-264 *)

\* FlushBatchData returns: to Finalize at line 98, or to NextBatch at line 284
FlushReturns(t) ==
    IF t = Fin
    THEN /\ pc' = [pc EXCEPT ![t] = "fin_callback"]
         /\ min_index' = [min_index EXCEPT ![t] = 0]
         /\ UNCHANGED <<collection, batch_index, part_min, in_flight>>
    ELSE NextBatchReturns(t, part_batch[t])

\* FlushBatchData goes on, at the place at
FlushGoesOn(t, at) ==
    /\ pc' = [pc EXCEPT ![t] = at]
    /\ UNCHANGED <<collection, batch_index, part_min, in_flight, min_index>>

\* line 236: the loop condition
FlushCheck(t) ==
    /\ pc[t] = "fbd_check"
    /\ IF active_flush THEN FlushReturns(t) ELSE FlushGoesOn(t, "fbd_lock")
    /\ UNCHANGED <<scheduler, batch_size, raw_batches, batch_data, rows_copied,
                   active_flush, lock, flush_lock, local_rows, part_batch, next_batch,
                   pending, handed, prepared, output, last_pass, sunk,
                   submitted,
                   copy_to_finalize, use_tmp_file, failed, finalize_log, last_flush, candidates, filled>>

\* line 239 without the lock
FlushLockFree_Ignored == TRUE

\* lock_guard<mutex> l(gstate.flush_lock) can be taken
FlushLockFree == flush_lock = NoThread

\* lines 239-240
FlushLock(t) ==
    /\ pc[t] = "fbd_lock"
    /\ FlushLockFree
    /\ flush_lock' = t
    /\ active_flush' = TRUE
    /\ pc' = [pc EXCEPT ![t] = "fbd_fetch"]
    /\ UNCHANGED <<scheduler, batch_size, raw_batches, batch_data, rows_copied, lock,
                   collection, local_rows, batch_index, part_batch, part_min, in_flight,
                   next_batch, min_index, pending, handed, prepared, output, last_pass, sunk,
                   submitted,
                   copy_to_finalize, use_tmp_file, failed, finalize_log, last_flush, candidates, filled>>

\* lines 245-253 alone, without the test of lines 254-257
NothingToFlush_NullTaken(m, min_idx) ==
    \/ DOMAIN m = {}
    \/ SetMin(DOMAIN m) >= min_idx

\* lines 245-257: nothing that may be flushed now
NothingToFlush(m, min_idx) ==
    \/ DOMAIN m = {}
    \/ SetMin(DOMAIN m) >= min_idx
    \/ m[SetMin(DOMAIN m)] = NullPtr

\* the value of active_flush when the loop is left by a break of lines 245-257
FlagAfterBreak(flag) == flag

\* lines 242-261: under gstate.lock the smallest entry is taken, or the loop is
\* left; then flush_batch is called
FlushFetch(t) ==
    /\ pc[t] = "fbd_fetch"
    /\ RegistryLockFree
    /\ IF NothingToFlush(batch_data, min_index[t])
       THEN /\ flush_lock' = NoThread
            /\ active_flush' = FlagAfterBreak(active_flush)
            /\ FlushReturns(t)
            /\ UNCHANGED <<batch_data, pending, output>>
       ELSE LET k == SetMin(DOMAIN batch_data) IN
            /\ batch_data' = MapErase(batch_data, {k})
            /\ pending' = [pending EXCEPT ![t] = <<Deref(batch_data[k])>>]
            /\ output' = Append(output, Deref(batch_data[k]))
            /\ FlushGoesOn(t, "fbd_flush")
            /\ UNCHANGED <<flush_lock, active_flush>>
    /\ UNCHANGED <<scheduler, batch_size, raw_batches, rows_copied, lock, local_rows,
                   part_batch, next_batch, handed, prepared, last_pass, sunk,
                   submitted,
                   copy_to_finalize, use_tmp_file, failed, finalize_log, last_flush, candidates, filled>>

\* function.flush_batch returns to its caller.
\*   line 214 (RepartitionBatches): the next result is prepared; after the last
\*   one the lock_guard of line 129 is released.
\*   lines 261-263 (FlushBatchData): the flag is reset, the flush lock released
\*   and the loop goes on.
FlushBatchReturns(t) ==
    /\ pc[t] \in {"rp_flush", "fbd_flush"}
    /\ IF pc[t] = "rp_flush"
       THEN /\ pending' = [pending EXCEPT ![t] = Tail(@)]
            /\ lock' = IF Tail(pending[t]) = <<>> THEN NoThread ELSE lock
            /\ pc' = [pc EXCEPT ![t] =
                        IF Tail(pending[t]) = <<>> THEN "fbd_check" ELSE "rp_prepare"]
            /\ UNCHANGED <<active_flush, flush_lock>>
       ELSE /\ pending' = [pending EXCEPT ![t] = <<>>]
            /\ active_flush' = FALSE
            /\ flush_lock' = NoThread
            /\ pc' = [pc EXCEPT ![t] = "fbd_check"]
            /\ lock' = lock
    /\ UNCHANGED <<scheduler, batch_size, raw_batches, batch_data, rows_copied,
                   collection, local_rows, batch_index, part_batch, part_min, in_flight,
                   next_batch, min_index, handed, prepared, output, last_pass, sunk,
                   submitted,
                   copy_to_finalize, use_tmp_file, failed, finalize_log, last_flush, candidates, filled>>

\* a lock_guard that stays locked when an error leaves its scope
Unwound_Kept(holder, t) == holder

\* the holder of a mutex once an error has left the scope of thread t's
\* lock_guard on it (lines 113, 129, 227, 239)
Unwound(holder, t) == IF holder = t THEN NoThread ELSE holder

\* the error of function.flush_batch caught inside the sink, which goes on with
\* the loop of FlushBatchData
FlushErrorCaught(t) == "fbd_check"

\* where a thread is once function.flush_batch has raised an error: lines 214
\* and 261 are inside no try block, so the error leaves RepartitionBatches or
\* FlushBatchData, and NextBatch or Finalize with it
FlushErrorLeaves(t) == "flush_error"

\* function.flush_batch raises an error.
\*   line 214 (RepartitionBatches): result and the lock_guard of line 129 are
\*   destroyed.
\*   line 261 (FlushBatchData): batch_data (the local of line 241) and the
\*   lock_guard of line 239 are destroyed; line 262 is not reached.
FlushBatchFails(t) ==
    /\ pc[t] \in {"rp_flush", "fbd_flush"}
    /\ failed' = failed \cup {Head(pending[t])}
    /\ pending' = [pending EXCEPT ![t] = <<>>]
    /\ lock' = Unwound(lock, t)
    /\ flush_lock' = Unwound(flush_lock, t)
    /\ pc' = [pc EXCEPT ![t] = FlushErrorLeaves(t)]
    /\ UNCHANGED <<scheduler, batch_size, raw_batches, batch_data, rows_copied,
                   active_flush, collection, local_rows, batch_index, part_batch,
                   part_min, in_flight, next_batch, min_index, handed, prepared,
                   output, last_pass, sunk, submitted, copy_to_finalize,
                   use_tmp_file, finalize_log, last_flush, candidates, filled>>


\* function.prepare_batch raises an error.
\*   line 213 (RepartitionBatches): result and the lock_guard of line 129 are
\*   destroyed.
\*   line 223 (PrepareBatchData): no lock is held yet.
PrepareBatchFails(t) ==
    /\ pc[t] \in {"rp_prepare", "prepare"}
    /\ pending' = [pending EXCEPT ![t] = <<>>]
    /\ collection' = IF pc[t] = "prepare"
                     THEN [collection EXCEPT ![t] = NullPtr] ELSE collection
    /\ lock' = Unwound(lock, t)
    /\ flush_lock' = Unwound(flush_lock, t)
    /\ pc' = [pc EXCEPT ![t] = "prepare_error"]
    /\ UNCHANGED <<scheduler, batch_size, raw_batches, batch_data, rows_copied,
                   active_flush, local_rows, batch_index, part_batch, part_min,
                   in_flight, next_batch, min_index, handed, prepared, output,
                   last_pass, sunk, submitted, copy_to_finalize, use_tmp_file,
                   failed, finalize_log, last_flush, candidates, filled>>
----------------------------------------------------------------------------
(* Finalize, lines 89-106 *)

\* the executor calls Finalize once every producer has combined
FinalizeCalled ==
    scheduler = "free" \/ \A p \in Producers : pc[p] = "done"

\* what line 93 reads: raw_batches.empty() is read without gstate.lock, so a
\* call concurrent with other threads may see either answer
RawSeenNonEmpty ==
    IF scheduler = "free" THEN BOOLEAN ELSE {DOMAIN raw_batches # {}}

\* lines 91-97
Finalize ==
    /\ pc[Fin] = "start"
    /\ FinalizeCalled
    /\ min_index' = [min_index EXCEPT ![Fin] = INT64_MAX]
    /\ \E nonempty \in RawSeenNonEmpty :
        pc' = [pc EXCEPT ![Fin] = IF nonempty THEN "repartition" ELSE "fbd_check"]
    /\ UNCHANGED <<scheduler, batch_size, raw_batches, batch_data, rows_copied,
                   active_flush, lock, flush_lock, collection, local_rows, batch_index,
                   part_batch, part_min, in_flight, next_batch, pending, handed,
                   prepared, output, last_pass, sunk,
                   submitted,
                   copy_to_finalize, use_tmp_file, failed, finalize_log, last_flush, candidates, filled>>

\* lines 98-100 and 104-105: the callback, when there is one; Finalize returns
\* unless line 101 sends it to MoveTmpFile
FinalizeCallback ==
    /\ pc[Fin] = "fin_callback"
    /\ IF copy_to_finalize
       THEN /\ finalize_log' = Append(finalize_log,
                    [step |-> "copy_to_finalize", flushed |-> Len(output)])
            /\ pc' = [pc EXCEPT ![Fin] = IF use_tmp_file THEN "fin_move" ELSE "finalized"]
       ELSE /\ finalize_log' = finalize_log
            /\ pc' = [pc EXCEPT ![Fin] = "finalized"]
    /\ UNCHANGED <<scheduler, batch_size, raw_batches, batch_data, rows_copied,
                   active_flush, lock, flush_lock, collection, local_rows, batch_index,
                   part_batch, part_min, in_flight, next_batch, min_index, pending,
                   handed, prepared, output, last_pass, sunk, submitted,
                   copy_to_finalize, use_tmp_file, failed, last_flush, candidates, filled>>

\* lines 101-105: PhysicalCopyToFile::MoveTmpFile, then Finalize returns
MoveTmpFile ==
    /\ pc[Fin] = "fin_move"
    /\ finalize_log' = Append(finalize_log,
            [step |-> "MoveTmpFile", flushed |-> Len(output)])
    /\ pc' = [pc EXCEPT ![Fin] = "finalized"]
    /\ UNCHANGED <<scheduler, batch_size, raw_batches, batch_data, rows_copied,
                   active_flush, lock, flush_lock, collection, local_rows, batch_index,
                   part_batch, part_min, in_flight, next_batch, min_index, pending,
                   handed, prepared, output, last_pass, sunk, submitted,
                   copy_to_finalize, use_tmp_file, failed, last_flush, candidates, filled>>

----------------------------------------------------------------------------
(* The specifications *)

ProducerStep(p) ==
    \/ Sink(p)
    \/ Combine(p)
    \/ NextBatch(p)
    \/ AddBatchData(p)
    \/ PrepareBatch(p)
    \/ InsertPrepared(p)

ThreadStep(t) ==
    \/ RepartitionBatches(t)
    \/ RepartitionGather(t)
    \/ RepartitionPrepare(t)
    \/ FlushCheck(t)
    \/ FlushLock(t)
    \/ FlushFetch(t)
    \/ FlushBatchReturns(t)
    \/ FlushBatchFails(t)
    \/ PrepareBatchFails(t)

Next ==
    \/ \E p \in Producers : ProducerStep(p)
    \/ \E t \in Threads : ThreadStep(t)
    \/ Finalize
    \/ FinalizeCallback
    \/ MoveTmpFile

\* the sink driven by the pipeline executor
Spec == Init /\ [][Next]_vars

\* the sink driven by any caller: any batch index, any watermark, Finalize at
\* any time
SpecFree == InitFree /\ [][Next]_vars

\* the sink driven by the pipeline executor, for every configuration
SpecConfig == InitConfig /\ [][Next]_vars

----------------------------------------------------------------------------
(* RepartitionBatches and FlushBatchData on their own: the registry holds any
   batches, and calls run one after the other, as NextBatch makes them (any
   min_index, final = false) and as Finalize makes them (INT64_MAX, final = true).
   A prepared batch is null when function.prepare_batch returned a null
   pointer. *)

RSizes == {0, 1, 2, 5}
RBatchSizes == {2, 3, 10}

\* the collection of batch k, of n rows
BatchRows(k, n) == [i \in 1..n |-> <<k, i>>]

InitRepart ==
    /\ scheduler = "pass"
    /\ batch_size \in RBatchSizes \cup {0}
    /\ IF batch_size # 0
       THEN /\ \E n \in 0..MaxEntries : \E size \in [0 .. n - 1 -> RSizes] :
                raw_batches = [k \in 0 .. n - 1 |-> BatchRows(k, size[k])]
            /\ batch_data = EmptyMap
       ELSE /\ raw_batches = EmptyMap
            /\ \E n \in 0..MaxEntries : \E ready \in [0 .. n - 1 -> BOOLEAN] :
                batch_data = [k \in 0 .. n - 1 |->
                                IF ready[k] THEN Ptr(BatchRows(k, 1)) ELSE NullPtr]
    /\ rows_copied = 0
    /\ active_flush = FALSE
    /\ lock = NoThread
    /\ flush_lock = NoThread
    /\ collection = [p \in Producers |-> NullPtr]
    /\ local_rows = [p \in Producers |-> 0]
    /\ batch_index = [p \in Producers |-> 0]
    /\ part_batch = [p \in Producers |-> NoBatch]
    /\ part_min = [p \in Producers |-> NoBatch]
    /\ in_flight = [p \in Producers |-> NoBatch]
    /\ next_batch = 0
    /\ pc = [t \in Threads |-> "start"]
    /\ min_index = [t \in Threads |-> 0]
    /\ pending = [t \in Threads |-> <<>>]
    /\ sunk = 0
    /\ submitted = DOMAIN raw_batches \cup DOMAIN batch_data
    /\ handed = IF batch_size # 0 THEN raw_batches
                ELSE [k \in DOMAIN batch_data |-> BatchRows(k, 1)]
    /\ prepared = [c \in {[idx |-> k, rows |-> BatchRows(k, 1), final |-> FALSE] :
                            k \in DOMAIN batch_data} |-> 1]
    /\ output = <<>>
    /\ last_pass = [status |-> "none"]
    /\ last_flush = [status |-> "none"]
    /\ copy_to_finalize = TRUE
    /\ use_tmp_file = TRUE
    /\ failed = {}
    /\ finalize_log = <<>>
    /\ candidates = [t \in Threads |-> {}]
    /\ filled = [p \in Producers |-> NoBatch]

RECURSIVE BagAddAll(_, _, _)
BagAddAll(b, colls, final) ==
    IF colls = <<>> THEN b
    ELSE BagAddAll(BagAdd(b, [idx |-> NoBatch, rows |-> Head(colls), final |-> final]),
                   Tail(colls), final)

\* one call of RepartitionBatches, lines 124-216, run to its end
RepartitionCall ==
    /\ scheduler = "pass"
    /\ batch_size # 0
    /\ pc[Fin] = "start"
    /\ \E final \in BOOLEAN :
       \E w \in (IF final THEN {INT64_MAX} ELSE 0 .. MaxEntries) :
        LET r == RepartitionPass(raw_batches, w, final, batch_size) IN
        /\ raw_batches' = r.raw
        /\ prepared' = BagAddAll(prepared, r.result, final)
        /\ output' = output \o r.result
        /\ last_pass' = [status |-> r.status, thread |-> Fin, final |-> final,
                         min_index |-> w, before |-> raw_batches,
                         after |-> r.raw, result |-> r.result]
        /\ pc' = [pc EXCEPT ![Fin] = IF r.status = "null" THEN "null_error"
                                     ELSE IF final THEN "finalized" ELSE "start"]
    /\ UNCHANGED <<scheduler, batch_size, batch_data, rows_copied, active_flush, lock,
                   flush_lock, collection, local_rows, batch_index, part_batch,
                   part_min, in_flight, next_batch, min_index, pending, sunk,
                   submitted, handed,
                   copy_to_finalize, use_tmp_file, failed, finalize_log, last_flush, candidates, filled>>

\* the rows of a prepared batch
RowsOf(batch) == IF batch = NullPtr THEN <<>> ELSE Deref(batch)

\* One call of FlushBatchData, lines 236-263, on the map m while the flag is
\* flag; acc collects the batches passed to flush_batch.
RECURSIVE FlushRun(_, _, _, _)
FlushRun(m, min_idx, flag, acc) ==
    IF flag THEN [data |-> m, flushed |-> acc, flag |-> flag]
    ELSE IF NothingToFlush(m, min_idx)
    THEN [data |-> m, flushed |-> acc, flag |-> FlagAfterBreak(TRUE)]
    ELSE LET k == SetMin(DOMAIN m)
         IN FlushRun(MapErase(m, {k}), min_idx, FALSE, Append(acc, m[k]))

\* one call of FlushBatchData, run to its end, as NextBatch makes it at line
\* 282 when batch_size is 0
FlushCall ==
    /\ scheduler = "pass"
    /\ batch_size = 0
    /\ \E w \in (0 .. MaxEntries) \cup {INT64_MAX} :
        LET r == FlushRun(batch_data, w, active_flush, <<>>) IN
        /\ batch_data' = r.data
        /\ active_flush' = r.flag
        /\ output' = output \o [i \in 1..Len(r.flushed) |-> RowsOf(r.flushed[i])]
        /\ last_flush' = [status |-> "ok", min_index |-> w, flag |-> active_flush,
                          before |-> batch_data, after |-> r.data,
                          flushed |-> r.flushed]
    /\ UNCHANGED <<scheduler, batch_size, raw_batches, rows_copied, lock, flush_lock,
                   collection, local_rows, batch_index, part_batch, part_min,
                   in_flight, next_batch, pc, min_index, pending, sunk, submitted,
                   handed, prepared, last_pass, copy_to_finalize, use_tmp_file,
                   failed, finalize_log, candidates, filled>>

NextRepart == RepartitionCall \/ FlushCall

SpecRepart == InitRepart /\ [][NextRepart]_vars

----------------------------------------------------------------------------
(* What the claims speak of *)

\* thread t is executing function.flush_batch
InFlushBatch(t) == pc[t] \in {"rp_flush", "fbd_flush"}

\* the rows passed to flush_batch so far, in the order they were passed
FlushedRows == Flatten(output)

\* how often x occurs in the sequence seq
Occurrences(seq, x) == Cardinality({i \in 1..Len(seq) : seq[i] = x})

\* the rows of the batches handed off by NextBatch, by increasing batch index
HandedInOrder == ValuesAt(handed, SortedKeys(DOMAIN handed))

\* the rows Sink has accepted
SunkRows == UNION {{<<p, n>> : n \in 1..local_rows[p]} : p \in Producers}

\* Finalize has returned SinkFinalizeType::READY
Finalized == pc[Fin] = "finalized"

AllCombined == \A p \in Producers : pc[p] = "done"

\* the row counts of a sequence of collections
Sizes(colls) == [i \in 1..Len(colls) |-> Len(colls[i])]

\* the rows held by the entries of map m below index w
RECURSIVE RowsBelow(_, _)
RowsBelow(m, w) ==
    IF \A k \in DOMAIN m : k >= w THEN 0
    ELSE LET k == CHOOSE x \in DOMAIN m : x < w
         IN Len(m[k]) + RowsBelow(MapErase(m, {k}), w)

----------------------------------------------------------------------------
(* C1 *)

\* C1 (as claimed): once Finalize has returned, the rows passed to flush_batch
\* over the whole run are the rows of the handed-off batches, concatenated by
\* increasing batch index.
C1_OrderPreservation ==
    Finalized => FlushedRows = Flatten(HandedInOrder)

----------------------------------------------------------------------------
(* C2 *)

\* C2 (as claimed): after Finalize has returned, raw_batches and batch_data are
\* empty and every row that was put into either map has been passed to
\* flush_batch exactly once.
C2_FinalizeDrains ==
    Finalized =>
        /\ DOMAIN raw_batches = {}
        /\ DOMAIN batch_data = {}
        /\ \A b \in submitted : \A i \in 1..Len(handed[b]) :
                Occurrences(FlushedRows, handed[b][i]) = 1

----------------------------------------------------------------------------
(* C3 *)

\* C3 (as claimed): when every producer has combined and Finalize has returned
\* without an error, every row accepted by Sink has been passed to flush_batch
\* exactly once.
C3_NoSilentDrop ==
    (Finalized /\ AllCombined) =>
        \A r \in SunkRows : Occurrences(FlushedRows, r) = 1

----------------------------------------------------------------------------
(* C4 *)

\* C4: in every reachable state at most one thread is executing flush_batch,
\* whatever the interleaving of NextBatch and Finalize calls and whatever
\* batch_size.
C4_FlushMutualExclusion ==
    Cardinality({t \in Threads : InFlushBatch(t)}) <= 1

\* a producer is inside flush_batch while Finalize, on another thread, waits
\* for the flush lock
C4_Witness ==
    /\ pc[Fin] = "fbd_lock"
    /\ \E p \in Producers : pc[p] = "fbd_flush"

----------------------------------------------------------------------------
(* C5 *)

\* C5: once every producer has called Combine, the global rows_copied is the
\* number of rows passed to Sink; and rows_copied never decreases.
C5_CountConservation ==
    /\ [](AllCombined => rows_copied = sunk)
    /\ [][rows_copied' >= rows_copied]_vars

\* both producers sank rows and both have combined
C5_Witness ==
    /\ AllCombined
    /\ \A p \in Producers : local_rows[p] > 0
    /\ rows_copied = sunk

----------------------------------------------------------------------------
(* C6 *)

\* C6 (as claimed): with batch_size = 0, once Finalize has returned, every
\* collection handed off by NextBatch has been passed alone to prepare_batch
\* exactly once under its own batch index, and the calls of flush_batch are
\* these collections, each once, by increasing batch index.
C6_DisabledRepartitioning ==
    (batch_size = 0 /\ Finalized) =>
        /\ \A b \in DOMAIN handed :
            LET call == [idx |-> b, rows |-> handed[b], final |-> FALSE]
            IN call \in DOMAIN prepared /\ prepared[call] = 1
        /\ Cardinality(DOMAIN prepared) = Cardinality(DOMAIN handed)
        /\ output = HandedInOrder

----------------------------------------------------------------------------
(* C7 *)

\* the step in which producer p's call of AddBatchData or PrepareBatchData
\* reaches map::insert
InsertStep(p) == pc[p] \in {"add", "insert"} /\ pc'[p] # pc[p]

\* C7 (as claimed): submitting a batch index that was inserted before raises
\* the InternalException, whatever ran in between, and changes neither map.
C7_NoDuplicateSubmission ==
    [][\A p \in Producers :
        (InsertStep(p) /\ batch_index[p] \in submitted) =>
            /\ pc'[p] = "dup_error"
            /\ raw_batches' = raw_batches
            /\ batch_data' = batch_data]_vars

----------------------------------------------------------------------------
(* C8 *)

\* C8: with batch_size B > 0, every collection a non-final RepartitionBatches
\* call emits has a row count c with |c - B| < STANDARD_VECTOR_SIZE, and so has
\* every collection of the final call but possibly the last; and the input
\* sizes <<5, 5, 5, 5>> with B = 10 give the sizes <<10, 10>>.
C8_RepartitionSizing ==
    /\ last_pass.status = "ok" =>
        \A i \in 1..Len(last_pass.result) :
            (~last_pass.final \/ i < Len(last_pass.result)) =>
                AbsValue(Len(last_pass.result[i]) - batch_size) < STANDARD_VECTOR_SIZE
    /\ ( /\ last_pass.status # "none"
         /\ Sizes(ValuesAt(last_pass.before, SortedKeys(DOMAIN last_pass.before)))
                = <<5, 5, 5, 5>>
         /\ batch_size = 10
         /\ STANDARD_VECTOR_SIZE < 5
         /\ last_pass.min_index >= 4 )
        => Sizes(last_pass.result) = <<10, 10>>

\* the call on <<5, 5, 5, 5>> with B = 10 has emitted <<10, 10>>
C8_Witness ==
    /\ last_pass.status = "ok"
    /\ ~last_pass.final
    /\ batch_size = 10
    /\ Sizes(ValuesAt(last_pass.before, SortedKeys(DOMAIN last_pass.before)))
            = <<5, 5, 5, 5>>
    /\ Sizes(last_pass.result) = <<10, 10>>

----------------------------------------------------------------------------
(* C9 *)

\* the call just made was not final and found fewer rows below its min_index
\* than batch_size
Starved(pass) ==
    /\ pass.status # "none"
    /\ ~pass.final
    /\ RowsBelow(pass.before, pass.min_index) < batch_size

\* C9: a non-final RepartitionBatches call that finds fewer than batch_size
\* rows below its watermark consumes nothing: raw_batches stays as it was and
\* neither prepare_batch nor flush_batch is called.
C9_StarvationGuard ==
    [][(last_pass' # last_pass /\ Starved(last_pass')) =>
        /\ raw_batches' = raw_batches
        /\ last_pass'.result = <<>>
        /\ prepared' = prepared
        /\ output' = output]_vars

\* a non-final call found some rows, fewer than batch_size, and left them
C9_Witness ==
    /\ Starved(last_pass)
    /\ RowsBelow(last_pass.before, last_pass.min_index) > 0
    /\ raw_batches = last_pass.before
    /\ output = <<>>

----------------------------------------------------------------------------
(* C10 *)

\* the rows RepartitionBatches' last call removed from raw_batches, by
\* increasing batch index
DrainedRows(pass) ==
    Flatten(ValuesAt(pass.before,
                     SortedKeys({k \in DOMAIN pass.before : k < pass.min_index})))

\* the rows the last call put back into raw_batches
LeftoverRows(pass) ==
    LET below == {k \in DOMAIN pass.before : k < pass.min_index} IN
    IF below # {} /\ SetMax(below) \in DOMAIN pass.after
    THEN pass.after[SetMax(below)] ELSE <<>>

\* C10 (as claimed): in every pass that consumes entries, the rows of the
\* emitted collections followed by the rows of the leftover are the rows of
\* the drained entries by increasing batch index; and after the final pass the
\* rows emitted in total are those of all raw batches by increasing index.
C10_GroupingOnly ==
    /\ last_pass.status \in {"ok", "null"} =>
        Flatten(last_pass.result) \o LeftoverRows(last_pass) = DrainedRows(last_pass)
    /\ (last_pass.status \in {"ok", "null"} /\ last_pass.final) =>
        FlushedRows = Flatten(HandedInOrder)

----------------------------------------------------------------------------
(* C11 *)

\* every entry of before with a key at or above w is in after, unchanged
KeptFrom(before, after, w) ==
    \A k \in DOMAIN before :
        k >= w => (k \in DOMAIN after /\ after[k] = before[k])

\* the keys the call removed from the map
RemovedKeys(before, after) == DOMAIN before \ DOMAIN after

\* C11: a non-final RepartitionBatches call with watermark w removes only raw
\* entries with index < w, a FlushBatchData call passes to flush_batch only
\* prepared entries with index < w, by increasing index, every entry with
\* index >= w stays in its map unchanged, and nothing above the first key
\* >= w is drained.
C11_WatermarkGate ==
    /\ (last_pass.status # "none" /\ ~last_pass.final) =>
        /\ KeptFrom(last_pass.before, last_pass.after, last_pass.min_index)
        /\ \A k \in DOMAIN last_pass.before :
              (k \notin DOMAIN last_pass.after \/ last_pass.after[k] # last_pass.before[k])
                  => k < last_pass.min_index
    /\ last_flush.status # "none" =>
        /\ KeptFrom(last_flush.before, last_flush.after, last_flush.min_index)
        /\ \A k \in RemovedKeys(last_flush.before, last_flush.after) :
              k < last_flush.min_index
        /\ \A k \in DOMAIN last_flush.after : last_flush.after[k] = last_flush.before[k]
        /\ last_flush.flushed =
              ValuesAt(last_flush.before,
                       SortedKeys(RemovedKeys(last_flush.before, last_flush.after)))

\* a non-final pass drained entries and left an entry at or above its watermark
C11_WitnessPass ==
    /\ last_pass.status = "ok"
    /\ ~last_pass.final
    /\ last_pass.result # <<>>
    /\ \E k \in DOMAIN last_pass.after : k >= last_pass.min_index

\* a flush wrote entries and stopped at a ready entry at or above its watermark
C11_WitnessFlush ==
    /\ last_flush.status = "ok"
    /\ last_flush.flushed # <<>>
    /\ \E k \in DOMAIN last_flush.after :
          k >= last_flush.min_index /\ last_flush.after[k] # NullPtr

\* batch_size is fixed for a sink: one with a batch size repartitions and
\* never fills batch_data, one without never fills raw_batches
C11_Witness == C11_WitnessPass \/ C11_WitnessFlush

----------------------------------------------------------------------------
(* C12 *)

\* the thread's call of NextBatch or Finalize was left by an error of
\* flush_batch
LeftByError(t) == pc[t] = "flush_error"

\* C12: when flush_batch raises an error the error leaves the enclosing
\* NextBatch or Finalize call, whose thread holds no lock and does nothing
\* more at this sink, and no row of the failed batch is passed to flush_batch
\* a second time.
C12_WriterFailureFatal ==
    /\ [](\A c \in failed : \A i \in 1..Len(c) : Occurrences(FlushedRows, c[i]) = 1)
    /\ [](\A t \in Threads :
            LeftByError(t) => (lock # t /\ flush_lock # t /\ pending[t] = <<>>))
    /\ [][\A t \in Threads :
            /\ (InFlushBatch(t) /\ failed' # failed /\ pc'[t] # pc[t]) => LeftByError(t)'
            /\ LeftByError(t) => LeftByError(t)']_vars

\* a producer's NextBatch was left by the error of a batch with rows, which
\* is in no map any more, and the other producer has run to its end
C12_Witness ==
    \E t \in Producers : \E c \in failed :
        /\ LeftByError(t)
        /\ c # <<>>
        /\ \A k \in DOMAIN raw_batches : raw_batches[k] # c
        /\ \A k \in DOMAIN batch_data : batch_data[k] # Ptr(c)
        /\ \E q \in Producers \ {t} : pc[q] = "done"

----------------------------------------------------------------------------
(* C13 *)

\* C13 (as claimed): once Finalize has returned, no step adds a row to a
\* producer's collection or to its row counter (the state Sink writes): a
\* Sink call made then fails at once.
C13_AppendAfterFinalizeRejected ==
    [][Finalized =>
        /\ \A p \in Producers : Len(RowsOf(collection'[p])) <= Len(RowsOf(collection[p]))
        /\ local_rows' = local_rows
        /\ sunk' = sunk]_vars

----------------------------------------------------------------------------
(* C14 *)

\* the optional steps Finalize has made, in the order it made them
FinalizeSteps == [i \in 1..Len(finalize_log) |-> finalize_log[i].step]

\* C14 (as claimed): when Finalize has returned, after its final repartition
\* and final flush it has called copy_to_finalize if and only if one is
\* defined and then MoveTmpFile if and only if use_tmp_file is set, in this
\* order, and no flush_batch call was made after copy_to_finalize.
C14_FinalizeSequence ==
    Finalized =>
        /\ FinalizeSteps =
              (IF copy_to_finalize THEN <<"copy_to_finalize">> ELSE <<>>)
                  \o (IF use_tmp_file THEN <<"MoveTmpFile">> ELSE <<>>)
        /\ \A i \in 1..Len(finalize_log) : finalize_log[i].flushed = Len(output)

----------------------------------------------------------------------------
(* C15 *)

\* C15 (as claimed): whenever no thread holds flush_lock, active_flush is
\* false, so the flag makes a FlushBatchData call skip its flush only while
\* another thread is inside the flush critical section.
C15_FlagReflectsFlush == flush_lock = NoThread => ~active_flush

----------------------------------------------------------------------------
(* C16 *)

\* every entry the pass drained has a row count within STANDARD_VECTOR_SIZE of
\* batch_size, so each one takes the path of lines 165-169
AllCheap(pass) ==
    LET below == {k \in DOMAIN pass.before : k < pass.min_index} IN
    /\ below # {}
    /\ \A k \in below : CorrectSizeForBatch(Len(pass.before[k]), batch_size)

\* C16 (as claimed): a pass whose drained entries all have a row count within
\* STANDARD_VECTOR_SIZE of batch_size completes normally and emits each one
\* unchanged as its own collection, by increasing index, in a final or
\* non-final call.
C16_CheapPath ==
    (last_pass.status \in {"ok", "null"} /\ AllCheap(last_pass)) =>
        /\ last_pass.status = "ok"
        /\ last_pass.result =
              ValuesAt(last_pass.before,
                       SortedKeys({k \in DOMAIN last_pass.before : k < last_pass.min_index}))

----------------------------------------------------------------------------
(* C17 *)

\* the keys the pass consumed
ConsumedKeys(pass) == {k \in DOMAIN pass.before : k < pass.min_index}

\* the entries of before the pass could not consume
Untouched(pass) == MapErase(pass.before, ConsumedKeys(pass))

----------------------------------------------------------------------------
(* C18 *)

\* the keys of batch_data that held a null prepared value when the call began
NullKeys(flush) == {k \in DOMAIN flush.before : flush.before[k] = NullPtr}

\* C18: FlushBatchData stops at an entry of batch_data whose prepared value
\* is null: the entry stays in the map, flush_batch is not called on it, and
\* no entry with a larger index is removed or flushed, even when ready and
\* below the watermark.
C18_NullBlocksHead ==
    last_flush.status = "ok" =>
        /\ \A k \in NullKeys(last_flush) :
              /\ k \in DOMAIN last_flush.after
              /\ \A j \in DOMAIN last_flush.before :
                    j >= k => (j \in DOMAIN last_flush.after
                               /\ last_flush.after[j] = last_flush.before[j])
        /\ \A i \in 1..Len(last_flush.flushed) : last_flush.flushed[i] # NullPtr
        /\ (last_flush.before # EmptyMap
             /\ SetMin(DOMAIN last_flush.before) \in NullKeys(last_flush)) =>
              (last_flush.after = last_flush.before /\ last_flush.flushed = <<>>)

\* a call that found the flag clear met a null value at the smallest key,
\* below its watermark, with a ready entry behind it also below the watermark
C18_Witness ==
    /\ last_flush.status = "ok"
    /\ ~last_flush.flag
    /\ last_flush.before # EmptyMap
    /\ SetMin(DOMAIN last_flush.before) \in NullKeys(last_flush)
    /\ \E j \in DOMAIN last_flush.before :
          /\ j > SetMin(DOMAIN last_flush.before)
          /\ j < last_flush.min_index
          /\ last_flush.before[j] # NullPtr
    /\ batch_data = last_flush.before
    /\ output = <<>>

----------------------------------------------------------------------------
(* C19 *)

\* the thread is inside prepare_batch or flush_batch for a collection that
\* RepartitionBatches produced (lines 213-214)
InRepartitionOutput(t) == pc[t] \in {"rp_prepare", "rp_flush"}

\* C19 (as claimed): while a thread prepares or writes the collections that
\* RepartitionBatches produced, it does not hold gstate.lock, so another
\* producer's AddBatchData can complete meanwhile.
C19_OutputOutsideRegistryLock ==
    \A t \in Threads : InRepartitionOutput(t) => lock # t

----------------------------------------------------------------------------
(* C20 *)

\* C20 (as claimed): a thread that is inside flush_batch holds flush_lock, in
\* FlushBatchData and in RepartitionBatches alike.
C20_FlushUnderFlushLock ==
    \A t \in Threads : InFlushBatch(t) => flush_lock = t

----------------------------------------------------------------------------
(* C21 *)

\* the thread is inside a repartition pass: between the lock_guard of line
\* 129 and the end of RepartitionBatches
InPass(t) == pc[t] \in {"rp_gather", "rp_prepare", "rp_flush"}

\* the keys of raw_batches below the watermark of the thread's call
BelowWatermark(t) == {k \in DOMAIN raw_batches : k < min_index[t]}

\* C21: between a pass's candidate-row sum and its removal of the candidates
\* raw_batches does not change, so the entries removed are exactly the
\* entries summed; the thread holds gstate.lock all the while, no two threads
\* are inside a pass at once, a pass drains the entries it summed and leaves
\* the others as they are, and no row is written twice.
C21_PassAtomic ==
    /\ [](\A t \in Threads :
            pc[t] = "rp_gather" => (lock = t /\ candidates[t] = BelowWatermark(t)))
    /\ [](\A t, u \in Threads : (InPass(t) /\ InPass(u)) => t = u)
    /\ [](\A i, j \in 1..Len(FlushedRows) : FlushedRows[i] = FlushedRows[j] => i = j)
    /\ [][\A t \in Threads :
            /\ (pc[t] = "rp_gather" /\ pc'[t] # "rp_gather") =>
                  /\ last_pass'.before = raw_batches
                  /\ DrainedRows(last_pass') =
                        Flatten(ValuesAt(raw_batches, SortedKeys(candidates[t])))
                  /\ \A k \in DOMAIN raw_batches \ candidates[t] :
                        k \in DOMAIN raw_batches' /\ raw_batches'[k] = raw_batches[k]
            /\ (pc[t] = "rp_gather" /\ pc'[t] = "rp_gather") =>
                  raw_batches' = raw_batches]_vars

\* a producer is between its candidate sum and the removal while the other
\* producer waits in AddBatchData with a batch below the first one's watermark
C21_Witness ==
    \E t, q \in Producers :
        /\ t # q
        /\ pc[t] = "rp_gather"
        /\ candidates[t] # {}
        /\ pc[q] = "add"
        /\ batch_index[q] < min_index[t]

----------------------------------------------------------------------------
(* C22 *)

\* the thread waits for gstate.lock (lines 113, 129, 227, 244) or for
\* gstate.flush_lock (line 239), held by another thread
Blocked(t) ==
    \/ pc[t] \in {"add", "insert", "repartition", "fbd_fetch"} /\ lock \notin {NoThread, t}
    \/ pc[t] = "fbd_lock" /\ flush_lock \notin {NoThread, t}

\* the thread is inside the scope of its lock_guard on gstate.lock
InRegistryScope(t) == pc[t] \in {"rp_gather", "rp_prepare", "rp_flush"}

\* the thread is inside the scope of its lock_guard on gstate.flush_lock
InFlushScope(t) == pc[t] \in {"fbd_fetch", "fbd_flush"}

\* C22: a lock is held only by a thread inside the scope that took it, so
\* every exit, by return or by an error of AddBatchData, PrepareBatchData,
\* prepare_batch or flush_batch, leaves both locks free for the others; a
\* thread that holds gstate.lock never waits for flush_lock (the nesting is
\* flush_lock, then lock); and whenever a thread waits for a lock, the holder
\* of that lock is not waiting.
C22_DeadlockFreedom ==
    /\ lock # NoThread => InRegistryScope(lock)
    /\ flush_lock # NoThread => InFlushScope(flush_lock)
    /\ \A t \in Threads : lock = t => pc[t] # "fbd_lock"
    /\ \A t \in Threads :
          Blocked(t) =>
              \E u \in Threads \ {t} :
                  /\ ~Blocked(u)
                  /\ \/ lock = u
                     \/ flush_lock = u
                  /\ (pc[t] = "fbd_lock" /\ Blocked(flush_lock)) => lock = u

\* a producer's NextBatch was left by an error raised under gstate.lock (with
\* a batch size every such error is), and another thread has taken the lock
\* since and holds it
C22_Witness ==
    \E t \in Producers : \E u \in Threads \ {t} :
        /\ batch_size # 0
        /\ pc[t] \in {"flush_error", "prepare_error", "dup_error"}
        /\ lock = u
        /\ InRegistryScope(u)

----------------------------------------------------------------------------
(* C23 *)

\* the producer's NextBatch call returns with this step
NextBatchReturning(p) == pc[p] # "idle" /\ pc'[p] = "idle"

\* C23: a collection with rows that a producer hands off is inserted into
\* raw_batches or batch_data under the batch index that was active when Sink
\* filled it, and when NextBatch returns state.batch_index is the executor's
\* new batch index and the producer owns a fresh empty collection.
C23_HandOffPreviousIndex ==
    [][\A p \in Producers :
        /\ (InsertStep(p) /\ pc'[p] # "dup_error" /\ pc[p] = "add"
             /\ Deref(collection[p]) # <<>>) =>
              raw_batches' = MapInsert(raw_batches, filled[p], Deref(collection[p]))
        /\ (InsertStep(p) /\ pc'[p] # "dup_error" /\ pc[p] = "insert"
             /\ Head(pending[p]) # <<>>) =>
              batch_data' = MapInsert(batch_data, filled[p], Ptr(Head(pending[p])))
        /\ NextBatchReturning(p) =>
              /\ batch_index'[p] = part_batch'[p]
              /\ collection'[p] = Ptr(<<>>)]_vars

\* a producer's rows are in a map under the index they were sunk under, and
\* the producer has returned from NextBatch with a larger index and an empty
\* collection
C23_Witness ==
    \E p \in Producers :
        \E k \in DOMAIN raw_batches \cup DOMAIN batch_data :
            LET rows == IF k \in DOMAIN raw_batches
                        THEN raw_batches[k] ELSE RowsOf(batch_data[k])
            IN /\ rows # <<>>
               /\ rows[1][1] = p
               /\ filled[p] = k
               /\ pc[p] = "idle"
               /\ batch_index[p] > k
               /\ batch_index[p] = part_batch[p]
               /\ collection[p] = Ptr(<<>>)

----------------------------------------------------------------------------
(* C24 *)

\* C24 (as claimed): a collection without rows is never handed off: no
\* producer is inside AddBatchData or PrepareBatchData with one, no entry of
\* raw_batches or batch_data holds one, and prepare_batch was never called
\* for a batch index with one.
C24_EmptyHandOffNoOp ==
    /\ \A p \in Producers :
          /\ pc[p] \in {"add", "prepare"} => Deref(collection[p]) # <<>>
          /\ pc[p] = "insert" => Head(pending[p]) # <<>>
    /\ \A k \in DOMAIN raw_batches : raw_batches[k] # <<>>
    /\ \A k \in DOMAIN batch_data : batch_data[k] # Ptr(<<>>)
    /\ \A c \in DOMAIN prepared : c.idx # NoBatch => c.rows # <<>>

----------------------------------------------------------------------------
(* C25 *)

\* the row is one of the rows of the collection
Holds(rows, row) == \E i \in 1..Len(rows) : rows[i] = row

\* the collections a thread holds between two steps that are not inside
\* flush_batch at this moment (the one inside is counted with the output)
InTransit(t) == IF InFlushBatch(t) THEN Tail(pending[t]) ELSE pending[t]

\* the places that hold the row
Places(row) ==
    {<<"local", p>> : p \in {q \in Producers : Holds(RowsOf(collection[q]), row)}}
    \cup {<<"raw", k>> : k \in {j \in DOMAIN raw_batches : Holds(raw_batches[j], row)}}
    \cup {<<"data", k>> : k \in {j \in DOMAIN batch_data :
                                    Holds(RowsOf(batch_data[j]), row)}}
    \cup UNION {{<<"transit", t, i>> :
                    i \in {j \in 1..Len(InTransit(t)) : Holds(InTransit(t)[j], row)}} :
                t \in Threads}
    \cup {<<"output", i>> : i \in {j \in 1..Len(output) : Holds(output[j], row)}}

\* the copy function has raised no error: an error of prepare_batch or
\* flush_batch destroys the collections its caller held
NoWriterError == \A t \in Threads : pc[t] \notin {"flush_error", "prepare_error"}

\* C25 (as claimed): every row accepted by Sink is held in exactly one place:
\* a producer's collection, a raw_batches entry, a batch_data entry, a
\* collection in transit inside one thread's call, or the output. Stated for
\* a sink whose copy function has raised no error.
C25_SingleOwnership ==
    NoWriterError => \A row \in SunkRows : Cardinality(Places(row)) = 1

----------------------------------------------------------------------------
(* C26 *)

\* C26: when a non-final RepartitionBatches call with watermark w returns
\* normally, the raw_batches entries with index < w hold fewer than
\* batch_size rows in total.
C26_BoundedResidency ==
    (last_pass.status \in {"return", "ok"} /\ ~last_pass.final) =>
        RowsBelow(last_pass.after, last_pass.min_index) < batch_size

\* a non-final pass drained several entries holding at least batch_size rows,
\* emitted collections and left a leftover below its watermark
C26_Witness ==
    /\ last_pass.status = "ok"
    /\ ~last_pass.final
    /\ RowsBelow(last_pass.before, last_pass.min_index) > batch_size
    /\ last_pass.result # <<>>
    /\ RowsBelow(last_pass.after, last_pass.min_index) > 0
    /\ raw_batches = last_pass.after

----------------------------------------------------------------------------
(* C27 *)

\* C27: with a batch size batch_data stays empty and flush_batch is called
\* only from RepartitionBatches; without one raw_batches stays empty and
\* flush_batch is called only from FlushBatchData; batch_size never changes.
C27_WritePathsExclusive ==
    /\ [](batch_size # 0 =>
            /\ batch_data = EmptyMap
            /\ \A t \in Threads : pc[t] \notin {"prepare", "insert", "fbd_flush"})
    /\ [](batch_size = 0 =>
            /\ raw_batches = EmptyMap
            /\ \A t \in Threads :
                  pc[t] \notin {"add", "rp_gather", "rp_prepare", "rp_flush"})
    /\ [][batch_size' = batch_size]_vars

\* with a batch size a thread is inside flush_batch, called from
\* RepartitionBatches
C27_WitnessRepartition ==
    /\ batch_size # 0
    /\ \E t \in Threads : pc[t] = "rp_flush" /\ Head(pending[t]) # <<>>

\* without a batch size a thread is inside flush_batch, called from
\* FlushBatchData
C27_WitnessDirect ==
    /\ batch_size = 0
    /\ \E t \in Threads : pc[t] = "fbd_flush" /\ Head(pending[t]) # <<>>

\* batch_size is fixed for a sink, so a run takes one of the two paths
C27_Witness == C27_WitnessRepartition \/ C27_WitnessDirect

----------------------------------------------------------------------------
(* C28 *)

\* the producer's Combine call is this step
CombineStep(p) == pc[p] # "done" /\ pc'[p] = "done"

\* the producer's Sink call is this step
SinkStep(p) == local_rows'[p] # local_rows[p]

\* the shared state of the sink apart from the row counter
SharedState == <<batch_size, raw_batches, batch_data, active_flush, lock, flush_lock>>

\* C28: Combine adds the producer's rows_copied to the global rows_copied
\* and changes nothing else: the maps, active_flush, the locks and the
\* producer's collection stay as they are and nothing is handed off; Sink
\* changes no shared state and takes no lock.
C28_CombineFrame ==
    [][\A p \in Producers :
        /\ CombineStep(p) =>
              /\ rows_copied' = rows_copied + local_rows[p]
              /\ SharedState' = SharedState
              /\ collection' = collection
              /\ local_rows' = local_rows
              /\ handed' = handed /\ submitted' = submitted /\ prepared' = prepared
        /\ SinkStep(p) =>
              /\ SharedState' = SharedState
              /\ rows_copied' = rows_copied
              /\ \A q \in Producers \ {p} : collection'[q] = collection[q]]_vars

\* a producer has combined while it still holds a collection with rows, and
\* these rows are in no map, in no thread's hands and not in the output
C28_Witness ==
    \E p \in Producers :
        /\ pc[p] = "done"
        /\ RowsOf(collection[p]) # <<>>
        /\ local_rows[p] > 0
        /\ rows_copied >= local_rows[p]
        /\ \A row \in {RowsOf(collection[p])[i] : i \in 1..Len(RowsOf(collection[p]))} :
              Places(row) = {<<"local", p>>}

====
